---- MODULE Spec2Model ----
(***************************************************************************)
(* Document service: the TaskRun state machine of worker.run_task, the     *)
(* submitting endpoints of app.py (POST /files:run and the synchronous     *)
(* POST /files/{file_id}/to-pdf) and the source resolution fallback chain. *)
(*                                                                         *)
(* Strings that the code parses or builds (storage URIs, object keys) are  *)
(* sequences of tokens: the scheme "s3://", the separator "/" and path     *)
(* segments.  Python None is the string "None" for text columns and 0 for  *)
(* datetime columns (the clock starts at 1).                               *)
(***************************************************************************)
EXTENDS Integers, Sequences, FiniteSets, TLC

\* ---------------------------------------------------------------- bounds
MaxRuns == 1          \* TaskRun rows that may be created
MaxDeliveries == 2    \* deliveries of worker.run_task messages
MaxClock == 2         \* largest value of datetime.utcnow()
MaxPages == 2         \* pages of a document the rasterizer opens
MaxEntries == 11      \* page images handed to the archive assembler
MaxDim == 22          \* width, height and max_side of a page, in pixels

\* ------------------------------------------------------------- constants
NoneStr == "None"
NoneTime == 0
StaleId == 0          \* a task_run_id for which no TaskRun row exists
Workers == {"w1", "w2"}
FileIds == {"f1"}

\* ----------------------------------------------------------- s3util.py
\* load_s3_config().bucket
cfg_bucket == <<"llmops-bucket">>

NoExc == [type |-> "None", arg |-> ""]
AssertionError == [type |-> "AssertionError", arg |-> ""]
ValueError(msg) == [type |-> "ValueError", arg |-> msg]
RuntimeError(msg) == [type |-> "RuntimeError", arg |-> msg]
ClientError(code) == [type |-> "ClientError", arg |-> code]

\* str(e): the message of an exception
str_e(e) ==
    IF e.type = "ClientError"
    THEN IF e.arg = "NoSuchKey"
         THEN "An error occurred (NoSuchKey) when calling the GetObject operation"
         ELSE "An error occurred (AccessDenied) when calling the GetObject operation"
    ELSE e.arg

\* index of the first "/" of s, 0 when there is none
RECURSIVE find_slash(_, _)
find_slash(s, i) ==
    IF i > Len(s) THEN 0
    ELSE IF s[i] = "/" THEN i
    ELSE find_slash(s, i + 1)

\* split_s3_uri(uri): (bucket, key), or the exception it raises
split_s3_uri(uri) ==
    IF ~(Len(uri) > 0 /\ uri[1] = "s3://")
    THEN [exc |-> AssertionError, bucket |-> <<>>, key |-> <<>>]
    ELSE LET rest == Tail(uri)
             i == find_slash(rest, 1)
         IN IF i = 0
            THEN [exc |-> ValueError("not enough values to unpack (expected 2, got 1)"),
                  bucket |-> <<>>, key |-> <<>>]
            ELSE [exc |-> NoExc,
                  bucket |-> SubSeq(rest, 1, i - 1),
                  key |-> SubSeq(rest, i + 1, Len(rest))]

\* put_bytes returns f"s3://{cfg.bucket}/{key}"
s3_uri(bucket, key) == <<"s3://">> \o bucket \o <<"/">> \o key

\* ------------------------------------------------------ object storage
\* key of candidate (2) and of candidate (3)
new_key(f) == <<f.owner_id, "/", "source_files", "/", f.id, "/", f.user_filename>>
old_key(f) == <<"uploads", "/", f.id, "/", f.user_filename>>

Loc(bucket, key) == [bucket |-> bucket, key |-> key]

\* what a location of the store answers to get_object
ObjStates == {"absent", "error", "data", "empty"}

\* s3_client(cfg).get_object(Bucket, Key)["Body"].read()
get_object(st, bucket, key) ==
    LET l == Loc(bucket, key)
        s == IF l \in DOMAIN st THEN st[l] ELSE "absent"
    IN IF s = "absent" THEN [exc |-> ClientError("NoSuchKey"), data |-> <<>>]
       ELSE IF s = "error" THEN [exc |-> ClientError("AccessDenied"), data |-> <<>>]
       ELSE IF s = "empty" THEN [exc |-> NoExc, data |-> <<>>]
       ELSE [exc |-> NoExc, data |-> <<l>>]

MissingCodes == {"NoSuchKey", "NoSuchBucket"}

\* _try_get_object_bytes: kind "bytes", "none" (returns None) or "raise"
_try_get_object_bytes(st, bucket, key) ==
    LET r == get_object(st, bucket, key)
    IN IF r.exc = NoExc THEN [kind |-> "bytes", data |-> r.data, exc |-> NoExc]
       ELSE IF r.exc.type = "ClientError" /\ r.exc.arg \in MissingCodes
            THEN [kind |-> "none", data |-> <<>>, exc |-> NoExc]
            ELSE [kind |-> "raise", data |-> <<>>, exc |-> r.exc]

Tried(bucket, key, tag) == [bucket |-> bucket, key |-> key, from |-> tag]

\* _resolve_source_bytes_or_404(f).  kind: "return" (data), "http404"
\* (HTTPException 404 whose detail lists tried) or "raise" (exc propagates).
\* fetched is the sequence of locations handed to get_object.
_resolve_source_bytes_or_404(st, f) ==
    LET sp == split_s3_uri(f.storage_uri)
        \* 1) DB.storage_uri, inside try/except Exception: pass
        tried1 == IF sp.exc = NoExc
                  THEN <<Tried(sp.bucket, sp.key, "db.storage_uri")>> ELSE <<>>
        fetched1 == IF sp.exc = NoExc THEN <<Loc(sp.bucket, sp.key)>> ELSE <<>>
        r1 == IF sp.exc = NoExc
              THEN _try_get_object_bytes(st, sp.bucket, sp.key)
              ELSE [kind |-> "raise", data |-> <<>>, exc |-> sp.exc]
        \* 2) new rule
        tried2 == Append(tried1, Tried(cfg_bucket, new_key(f), "new_rule"))
        fetched2 == Append(fetched1, Loc(cfg_bucket, new_key(f)))
        r2 == _try_get_object_bytes(st, cfg_bucket, new_key(f))
        \* 3) old rule
        tried3 == Append(tried2, Tried(cfg_bucket, old_key(f), "old_rule"))
        fetched3 == Append(fetched2, Loc(cfg_bucket, old_key(f)))
        r3 == _try_get_object_bytes(st, cfg_bucket, old_key(f))
    IN IF r1.kind = "bytes"
       THEN [kind |-> "return", data |-> r1.data, exc |-> NoExc,
             tried |-> tried1, fetched |-> fetched1]
       ELSE IF r2.kind = "raise"
       THEN [kind |-> "raise", data |-> <<>>, exc |-> r2.exc,
             tried |-> tried2, fetched |-> fetched2]
       ELSE IF r2.kind = "bytes"
       THEN [kind |-> "return", data |-> r2.data, exc |-> NoExc,
             tried |-> tried2, fetched |-> fetched2]
       ELSE IF r3.kind = "raise"
       THEN [kind |-> "raise", data |-> <<>>, exc |-> r3.exc,
             tried |-> tried3, fetched |-> fetched3]
       ELSE IF r3.kind = "bytes"
       THEN [kind |-> "return", data |-> r3.data, exc |-> NoExc,
             tried |-> tried3, fetched |-> fetched3]
       ELSE [kind |-> "http404", data |-> <<>>, exc |-> NoExc,
             tried |-> tried3, fetched |-> fetched3]

\* worker._get_source_bytes(f): the bytes, or the exception it raises
_get_source_bytes(st, f) ==
    LET sp == split_s3_uri(f.storage_uri)
    IN IF sp.exc # NoExc THEN [exc |-> sp.exc, data |-> <<>>]
       ELSE get_object(st, sp.bucket, sp.key)

\* ------------------------------------------------------------ models.py
FileRow(id, owner, filename, uri, status) ==
    [id |-> id, owner_id |-> owner, user_filename |-> filename,
     storage_uri |-> uri, status |-> status]

\* TaskRun(file_id=..., name=..., status=...): the other columns are NULL
TaskRun(file_id, name, status) ==
    [file_id |-> file_id, name |-> name, status |-> status,
     started_at |-> NoneTime, finished_at |-> NoneTime, error |-> NoneStr]

Columns == {"file_id", "name", "status", "started_at", "finished_at", "error"}

\* db.add(tr); db.commit() of a loaded row: the ORM's UPDATE sets the
\* columns whose value differs from the one the session loaded, and leaves
\* the other columns of the stored row as they are.
orm_update(row, loaded, tr) ==
    [c \in Columns |-> IF tr[c] # loaded[c] THEN tr[c] ELSE row[c]]

\* ------------------------------------------------------ tasks/manager.py
\* key = name.strip().lower()
strip_lower(name) ==
    CASE name = " To_PDF " -> "to_pdf"
      [] name = "DOC_CONVERT" -> "doc_convert"
      [] OTHER -> name

\* manager._handlers after register_all(SessionLocal)
handlers == {"doc_convert", "to_pdf", "vlm_ocr"}

\* Artifact rows a handler commits when it runs to completion
artifacts_of(key) == IF key = "vlm_ocr" THEN 2 ELSE 1

\* what a handler's run may raise (conversion, tool or upload failure)
HandlerExcs == {RuntimeError("no images produced")}

\* the steps of each handler's run in the order of its code; commit is the
\* db.commit() that inserts the Artifact rows added to the handler's session
DocConvertSteps == <<"load", "no_images", "zip", "put_bytes", "commit">>
ToPdfSteps_commits_first == <<"load", "commit", "put_bytes">>
ToPdfSteps == <<"load", "put_bytes", "commit">>
VlmOcrSteps == <<"load", "analyze", "write", "upload", "commit">>

steps_of(key) ==
    CASE key = "doc_convert" -> DocConvertSteps
      [] key = "to_pdf" -> ToPdfSteps
      [] key = "vlm_ocr" -> VlmOcrSteps
      [] OTHER -> <<>>

\* the Artifact rows in the table once the first n steps of the handler have
\* run
RECURSIVE committed(_, _)
committed(key, n) ==
    IF n <= 0 THEN 0
    ELSE committed(key, n - 1)
         + (IF steps_of(key)[n] = "commit" THEN artifacts_of(key) ELSE 0)

\* how a handler's run ends: to completion (at = 0), or step at raises exc
HandlerOutcomes(key) ==
    {[exc |-> NoExc, at |-> 0]}
    \cup {[exc |-> e, at |-> i] : e \in HandlerExcs, i \in 1..Len(steps_of(key))}

\* TaskManager.run(tr, f, data) when the handler ends as outcome o: a step
\* that raises commits nothing itself
manager_run(tr, o) ==
    LET key == strip_lower(tr.name)
    IN IF key \notin handlers
       THEN [exc |-> ValueError("unknown task: " \o key), artifacts |-> 0]
       ELSE IF o.exc # NoExc
            THEN [exc |-> o.exc, artifacts |-> committed(key, o.at - 1)]
            ELSE [exc |-> NoExc, artifacts |-> committed(key, Len(steps_of(key)))]

\* a handler object: its identity and its class attribute name
Handler(id, name) == [id |-> id, name |-> name]

\* the handlers register_all builds, a second ToPdfHandler, and handlers of
\* other classes whose names differ from a registered one by case and blanks
DocConvertHandler == Handler("h_doc", "doc_convert")
ToPdfHandler == Handler("h_pdf", "to_pdf")
VlmOcrHandler == Handler("h_vlm", "vlm_ocr")
HandlerObjs ==
    {DocConvertHandler, ToPdfHandler, VlmOcrHandler,
     Handler("h_pdf2", "to_pdf"), Handler("h_pdf3", " To_PDF "),
     Handler("h_doc2", "DOC_CONVERT")}

\* TaskManager.__init__: self._handlers = {}
NoHandlers == [k \in {} |-> ""]

\* register that replaces the handler registered under the key
register_replaces(hs, handler) ==
    LET key == strip_lower(handler.name)
    IN [handlers |-> [k \in DOMAIN hs \cup {key} |->
                        IF k = key THEN handler.id ELSE hs[k]],
        exc |-> NoExc]

\* TaskManager.register(handler) on _handlers = hs: _handlers afterwards and
\* the exception raised
register(hs, handler) ==
    LET key == strip_lower(handler.name)
    IN IF key \in DOMAIN hs
       THEN [handlers |-> hs,
             exc |-> ValueError("handler already registered: " \o key)]
       ELSE [handlers |-> [k \in DOMAIN hs \cup {key} |->
                             IF k = key THEN handler.id ELSE hs[k]],
             exc |-> NoExc]

\* run that wraps what the handler raises
run_wraps(hs, name, h) ==
    LET key == strip_lower(name)
    IN IF key \notin DOMAIN hs
       THEN [exc |-> ValueError("unknown task: " \o key), invoked |-> <<>>]
       ELSE [exc |-> IF h = NoExc THEN NoExc ELSE RuntimeError("task failed"),
             invoked |-> <<hs[key]>>]

\* TaskManager.run(tr, f, data) on _handlers = hs for tr.name = name, where
\* the handler's run ends as h (NoExc, or the exception it raises): the
\* exception run raises and the handlers whose run was called, in order
run(hs, name, h) ==
    LET key == strip_lower(name)
    IN IF key \notin DOMAIN hs
       THEN [exc |-> ValueError("unknown task: " \o key), invoked |-> <<>>]
       ELSE [exc |-> h, invoked |-> <<hs[key]>>]

\* manager._handlers after register_all(SessionLocal)
register_all ==
    register(register(register(NoHandlers, DocConvertHandler).handlers,
                      ToPdfHandler).handlers, VlmOcrHandler).handlers

\* the manager before any call, and in a started worker
NewMgr == [handlers |-> NoHandlers, op |-> "none", arg |-> "", h |-> NoExc,
           exc |-> NoExc, invoked |-> <<>>]
StartedMgr == [NewMgr EXCEPT !.handlers = register_all]

\* ------------------------------------------------------------ loader.py
\* File names are sequences of tokens: name parts, "." and "/".  Byte
\* buffers are sequences of four-byte chunks, so data[:4] is the first chunk.
NonePy == <<"None">>

lower(tok) ==
    CASE tok = "PDF" -> "pdf"
      [] tok = "PNG" -> "png"
      [] tok = "JPEG" -> "jpeg"
      [] tok = "DOCX" -> "docx"
      [] OTHER -> tok

upper(tok) ==
    CASE tok = "png" -> "PNG"
      [] tok = "jpeg" -> "JPEG"
      [] tok = "jpg" -> "JPG"
      [] OTHER -> tok

\* index of the last "." of p that follows the last "/" and is preceded,
\* after that "/", by a token other than "."; 0 when there is none
RECURSIVE last_dot(_, _, _, _)
last_dot(p, i, seen, found) ==
    IF i > Len(p) THEN found
    ELSE IF p[i] = "/" THEN last_dot(p, i + 1, FALSE, 0)
    ELSE IF p[i] = "." THEN last_dot(p, i + 1, seen, IF seen THEN i ELSE found)
    ELSE last_dot(p, i + 1, TRUE, found)

\* os.path.splitext(p): (root, ext)
splitext(p) ==
    LET d == last_dot(p, 1, FALSE, 0)
    IN IF d = 0 THEN <<p, <<>>>>
       ELSE <<SubSeq(p, 1, d - 1), SubSeq(p, d, Len(p))>>

\* _ext_lower(path)
_ext_lower(path) ==
    LET e == splitext(path)[2] IN [i \in 1..Len(e) |-> lower(e[i])]

Ext(x) == <<".", x>>
Mime(t, sub) == <<t, "/", sub>>
OctetStream == Mime("application", "octet-stream")
ApplicationPdf == Mime("application", "pdf")
TextHtml == Mime("text", "html")

\* mimetypes.guess_type(path)[0]: the registered type of the extension,
\* looked up as written and then in lower case
guess_type(path) ==
    LET e == _ext_lower(path)
    IN CASE e = Ext("pdf") -> ApplicationPdf
         [] e = Ext("docx") -> Mime("application",
              "vnd.openxmlformats-officedocument.wordprocessingml.document")
         [] e = Ext("html") -> TextHtml
         [] e = Ext("png") -> Mime("image", "png")
         [] e = Ext("txt") -> Mime("text", "plain")
         [] e = Ext("bin") -> OctetStream
         [] OTHER -> NonePy

\* what _magika.identify_path / identify_bytes answers: a label, or the call
\* raises
MagikaRaises == "raise"
Labels == {"pdf", "docx", "html", "png", "txt", "empty"}

\* the magic numbers of the sniff, as first chunks of a buffer
PdfMagic == "%PDF"
PngMagic == "\\x89PNG"
JpegMagic == "\\xff\\xd8\\xff\\xe0"
TiffMagics == {"II*\\x00", "MM\\x00*"}

\* data[:n] for n a multiple of four
Prefix(data, chunks) == SubSeq(data, 1, IF Len(data) < chunks THEN Len(data) ELSE chunks)

Bytes(data) == [kind |-> "bytes", data |-> data, path |-> NonePy]
Path(path, data) == [kind |-> "path", data |-> data, path |-> path]

\* _detect_type(doc) when Magika answers mg: (label_or_mime, path, source)
_detect_type(doc, mg) ==
    IF doc.kind = "path"
    THEN IF mg # MagikaRaises
         THEN <<mg, doc.path, "magika">>
         ELSE LET mime == guess_type(doc.path)
              IN <<IF mime # NonePy THEN mime ELSE OctetStream, doc.path, "mimetypes">>
    ELSE LET data == doc.data
         IN IF mg # MagikaRaises THEN <<mg, NonePy, "magika">>
            ELSE IF Prefix(data, 1) = <<PdfMagic>>
                 THEN <<ApplicationPdf, NonePy, "sniff">>
            ELSE IF Prefix(data, 1) = <<PngMagic>>
                 THEN <<Mime("image", "png"), NonePy, "sniff">>
            ELSE IF Prefix(data, 1) = <<JpegMagic>>
                 THEN <<Mime("image", "jpeg"), NonePy, "sniff">>
            ELSE IF Len(data) >= 1 /\ data[1] \in TiffMagics
                 THEN <<Mime("image", "tiff"), NonePy, "sniff">>
            ELSE IF Prefix(data, 3) = <<"RIFF">> /\ SubSeq(data, 3, 3) = <<"WEBP">>
                 THEN <<Mime("image", "webp"), NonePy, "sniff">>
            ELSE <<OctetStream, NonePy, "sniff">>

\* ---- float arithmetic of the resize: IEEE 754 binary64, round to nearest
\* even.  A positive float is its significand, Mantissa bits with the most
\* significant first, and the exponent of its last bit.
Mantissa == 53

RECURSIVE to_int(_)
to_int(bits) ==
    IF bits = <<>> THEN 0
    ELSE 2 * to_int(SubSeq(bits, 1, Len(bits) - 1)) + bits[Len(bits)]

\* bits + 1 (one bit longer when every bit is 1)
RECURSIVE inc(_)
inc(bits) ==
    IF bits = <<>> THEN <<1>>
    ELSE IF bits[Len(bits)] = 0
         THEN SubSeq(bits, 1, Len(bits) - 1) \o <<1>>
         ELSE inc(SubSeq(bits, 1, Len(bits) - 1)) \o <<0>>

\* the significand rounded up (up) or kept, and the carry into the exponent
rounded(keep, up) ==
    LET r == IF up THEN inc(keep) ELSE keep
    IN IF Len(r) > Mantissa THEN [bits |-> SubSeq(r, 1, Mantissa), carry |-> 1]
       ELSE [bits |-> r, carry |-> 0]

\* the binary expansion of rem / m (0 < rem < m): z zeros, then bits
RECURSIVE div_bits(_, _, _, _)
div_bits(rem, m, bits, z) ==
    IF Len(bits) = Mantissa THEN [bits |-> bits, z |-> z, rem |-> rem]
    ELSE LET b == IF 2 * rem >= m THEN 1 ELSE 0
             r == 2 * rem - b * m
         IN IF bits = <<>> /\ b = 0 THEN div_bits(r, m, bits, z + 1)
            ELSE div_bits(r, m, Append(bits, b), z)

\* a / float(m) for integers 0 < a < m
fdiv(a, m) ==
    LET d == div_bits(a, m, <<>>, 0)
        up == 2 * d.rem > m \/ (2 * d.rem = m /\ d.bits[Mantissa] = 1)
        r == rounded(d.bits, up)
    IN [bits |-> r.bits, exp |-> r.carry - d.z - Mantissa]

\* the width low bits of n, and the bits of n without leading zeros
RECURSIVE low_bits(_, _)
low_bits(n, width) ==
    IF width = 0 THEN <<>> ELSE Append(low_bits(n \div 2, width - 1), n % 2)

RECURSIVE bits_of(_)
bits_of(n) == IF n = 0 THEN <<>> ELSE Append(bits_of(n \div 2), n % 2)

\* bits * w, exactly, for Mantissa bits and 1 <= w < 2^12: the product of
\* each Limb-bit limb with w and the carries between them
Limb == 18
mul_bits(bits, w) ==
    LET base == 2 ^ Limb
        l1 == to_int(SubSeq(bits, 1, Mantissa - 2 * Limb))
        l2 == to_int(SubSeq(bits, Mantissa - 2 * Limb + 1, Mantissa - Limb))
        l3 == to_int(SubSeq(bits, Mantissa - Limb + 1, Mantissa))
        p3 == w * l3
        p2 == w * l2 + p3 \div base
        p1 == w * l1 + p2 \div base
    IN bits_of(p1) \o low_bits(p2 % base, Limb) \o low_bits(p3 % base, Limb)

\* w * x for an integer w >= 1 and a float x
fmul(w, x) ==
    LET prod == mul_bits(x.bits, w)
        rest == SubSeq(prod, Mantissa + 1, Len(prod))
        up == /\ rest # <<>>
              /\ rest[1] = 1
              /\ \/ \E i \in 2..Len(rest) : rest[i] = 1
                 \/ prod[Mantissa] = 1
        r == rounded(SubSeq(prod, 1, Mantissa), up)
    IN [bits |-> r.bits, exp |-> x.exp + Len(rest) + r.carry]

\* int(x) for a float x below 2^Mantissa
int(x) ==
    LET n == Mantissa + x.exp
    IN IF n <= 0 THEN 0 ELSE to_int(SubSeq(x.bits, 1, n))

\* options.max_side = None
NoMaxSide == 0

max(a, b) == IF a >= b THEN a ELSE b

\* the max_side step of _open_pdf_as_images and of the image branch of
\* load: the size of im afterwards
resize(size, max_side) ==
    LET w == size[1]
        h == size[2]
        m == max(w, h)
    IN IF max_side # NoMaxSide /\ m > max_side
       THEN LET r == fdiv(max_side, m)
            IN <<int(fmul(w, r)), int(fmul(h, r))>>
       ELSE size

\* the same step in the image branch of load (lines 391-396)
image_resize(size, max_side) ==
    LET m == max(size[1], size[2])
    IN IF max_side # NoMaxSide
       THEN IF m > max_side
            THEN LET r == fdiv(max_side, m)
                 IN <<int(fmul(size[1], r)), int(fmul(size[2], r))>>
            ELSE size
       ELSE size

\* ---- DocumentToImagesLoader
OFFICE_LABELS == {"doc", "docx", "ppt", "pptx", "xls", "xlsx", "odt", "odp", "ods", "rtf"}
IMAGE_LABELS == {"png", "jpeg", "jpg", "webp", "tiff", "bmp"}
HTML_LABELS == {"html", "htm"}
OFFICE_MIMES ==
    {Mime("application", sub) : sub \in
       {"msword", "vnd.openxmlformats-officedocument.wordprocessingml.document",
        "vnd.ms-powerpoint",
        "vnd.openxmlformats-officedocument.presentationml.presentation",
        "vnd.ms-excel", "vnd.openxmlformats-officedocument.spreadsheetml.sheet",
        "rtf", "vnd.oasis.opendocument.text",
        "vnd.oasis.opendocument.presentation",
        "vnd.oasis.opendocument.spreadsheet"}}
IMAGE_EXTS == {Ext(x) : x \in {"png", "jpg", "jpeg", "tiff", "tif", "webp", "bmp"}}
HTML_EXTS == {Ext(x) : x \in {"html", "htm"}}

\* LoadOptions(...)
LoadOptions(return_mode, image_format, max_side, zip_name_in_zip) ==
    [dpi |-> 200, max_side |-> max_side, filename_prefix |-> <<"page">>,
     image_format |-> image_format, return_mode |-> return_mode,
     zip_name_in_zip |-> zip_name_in_zip]

\* the extension of the temporary file the bytes are written to
guessed(mime) ==
    CASE mime = ApplicationPdf -> Ext("pdf")
      [] mime = TextHtml -> Ext("html")
      [] mime = Mime("image", "png") -> Ext("png")
      [] mime = Mime("image", "jpeg") -> Ext("jpg")
      [] mime = Mime("image", "tiff") -> Ext("tiff")
      [] mime = Mime("image", "webp") -> Ext("webp")
      [] OTHER -> Ext("bin")

\* lines 315-340: label, mime, ext, data_bytes and the file at src_path
classified(doc, mg) ==
    LET det == _detect_type(doc, mg)
        path == det[2]
        src == det[3]
        label == IF src = "magika" THEN det[1] ELSE NoneStr
        mime == IF src = "magika" THEN NonePy ELSE det[1]
        ext0 == IF path # NonePy /\ path # <<>> THEN _ext_lower(path) ELSE NonePy
        src_path == IF doc.kind = "path" THEN <<"/", "cwd", "/">> \o doc.path
                    ELSE <<"/", "tmp", "/", "doc2img-", "/", "input">> \o guessed(mime)
    IN [label |-> label, mime |-> mime, src |-> src,
        ext |-> IF doc.kind = "bytes" /\ ext0 \in {NonePy, <<>>}
                THEN _ext_lower(src_path) ELSE ext0,
        data_bytes |-> IF doc.kind = "path" THEN NonePy ELSE doc.data,
        src_path |-> src_path]

\* lines 345-348
is_pdf(c) == c.label = "pdf" \/ c.mime = ApplicationPdf \/ c.ext = Ext("pdf")
is_office(c) == c.label \in OFFICE_LABELS \/ c.mime \in OFFICE_MIMES
is_html(c) ==
    \/ c.label \in HTML_LABELS
    \/ c.mime = TextHtml
    \/ (IF c.ext \notin {NonePy, <<>>} THEN c.ext \in HTML_EXTS ELSE FALSE)
is_image(c) ==
    \/ c.label \in IMAGE_LABELS
    \/ (c.mime # NonePy /\ SubSeq(c.mime, 1, 2) = <<"image", "/">>)
    \/ (IF c.ext \notin {NonePy, <<>>} THEN c.ext \in IMAGE_EXTS ELSE FALSE)

\* the elif chain that tests the image family before the others
branch_image_first(c) ==
    IF is_image(c) THEN "image"
    ELSE IF is_pdf(c) THEN "pdf"
    ELSE IF is_office(c) THEN "office"
    ELSE IF is_html(c) THEN "html"
    ELSE "else"

\* the branch the if / elif chain of lines 370-405 takes
branch(c) ==
    IF is_pdf(c) THEN "pdf"
    ELSE IF is_office(c) THEN "office"
    ELSE IF is_html(c) THEN "html"
    ELSE IF is_image(c) THEN "image"
    ELSE "else"

\* a last attempt for every input
last_attempt_always(c) == TRUE

\* line 401: the else branch makes a last attempt with LibreOffice
last_attempt(c) == c.ext \notin {NonePy, <<>>} /\ c.ext # Ext("bin")

\* a call of a conversion backend or of an assembler, with the bytes handed
\* to it (for a path, the bytes of the file)
Call(fn, data) == [fn |-> fn, data |-> data]

\* the PDF LibreOffice and the HTML renderer write
OfficePdf == <<PdfMagic, "soffice">>
HtmlPdf == <<PdfMagic, "weasyprint">>

Digits == <<"0", "1", "2", "3", "4", "5", "6", "7", "8", "9">>

RECURSIVE decimal(_)
decimal(i) ==
    IF i < 10 THEN <<Digits[i + 1]>>
    ELSE decimal(i \div 10) \o <<Digits[(i % 10) + 1]>>

\* f"{i:04d}"
RECURSIVE zfill(_, _)
zfill(ds, width) == IF Len(ds) >= width THEN ds ELSE zfill(<<"0">> \o ds, width)
fmt_04d(i) == zfill(decimal(i), 4)

\* entry names that number the pages from 0
zip_entry_from_zero(i, fmt, prefix, name_hint) ==
    IF name_hint \notin {NonePy, <<>>}
    THEN LET se == splitext(name_hint)
         IN se[1] \o <<"_">> \o fmt_04d(i - 1)
                  \o (IF se[2] # <<>> THEN se[2] ELSE <<".", lower(fmt)>>)
    ELSE prefix \o <<"_">> \o fmt_04d(i - 1) \o <<".", lower(fmt)>>

\* lines 273-277: the name of entry i of the archive
zip_entry(i, fmt, prefix, name_hint) ==
    IF name_hint \notin {NonePy, <<>>}
    THEN LET se == splitext(name_hint)
         IN se[1] \o <<"_">> \o fmt_04d(i)
                  \o (IF se[2] # <<>> THEN se[2] ELSE <<".", lower(fmt)>>)
    ELSE prefix \o <<"_">> \o fmt_04d(i) \o <<".", lower(fmt)>>

\* an image is its size; its encoding in format fmt
encoded(im, fmt) == <<upper(fmt), im>>

_images_to_bytes(images, fmt) == [i \in 1..Len(images) |-> encoded(images[i], fmt)]

\* the archive as the sequence of its entries
_images_to_zip_bytes(images, fmt, prefix, name_hint) ==
    [i \in 1..Len(images) |->
        [name |-> zip_entry(i, fmt, prefix, name_hint),
         data |-> encoded(images[i], fmt)]]

\* the PDF with one page per image, or what pdf.tobytes() raises
_images_to_pdf_bytes(images, dpi, tool) ==
    IF images = <<>> /\ tool = "tobytes_raises"
    THEN [exc |-> ValueError("cannot save with zero pages"), pdf |-> <<>>]
    ELSE [exc |-> NoExc, pdf |-> <<PdfMagic, images>>]

\* _open_pdf_as_images: pages are the sizes of the pixmaps of the document
_open_pdf_as_images(pages, max_side) ==
    [i \in 1..Len(pages) |-> resize(pages[i], max_side)]

\* what the external tools and libraries do in one call of load
Tools == {"ok", "convert_raises", "open_raises", "tobytes_raises"}

Returned(value, calls) == [kind |-> "return", value |-> value, exc |-> NoExc, calls |-> calls]
Raised(exc, calls) == [kind |-> "raise", value |-> <<>>, exc |-> exc, calls |-> calls]
NoLoad == [kind |-> "none", value |-> <<>>, exc |-> NoExc, calls |-> <<>>]

\* load without the direct entry points: every input goes to the image flow
direct_pdf_never(c, content, options, env) == NoLoad

\* a pass-through that saves the document again
direct_pdf_resaves(c, content, options, env) ==
    IF options.return_mode = "PDF_BYTES" /\ is_pdf(c)
    THEN Returned(<<PdfMagic, "saved">>, <<Call("_open_pdf_as_images", content)>>)
    ELSE NoLoad

\* lines 351-366: the PDF the direct entry point of the family returns, or
\* NoLoad when load goes on to the image flow
direct_pdf(c, content, options, env) ==
    IF options.return_mode # "PDF_BYTES" THEN NoLoad
    ELSE IF is_pdf(c) THEN Returned(content, <<>>)
    ELSE IF is_office(c)
    THEN LET calls == <<Call("_libreoffice_to_pdf", content)>>
         IN IF env.tool = "convert_raises"
            THEN Raised(RuntimeError("soffice"), calls)
            ELSE Returned(OfficePdf, calls)
    ELSE IF is_html(c)
    THEN LET calls == <<Call("_html_to_pdf", content)>>
         IN IF env.tool = "convert_raises"
            THEN Raised(RuntimeError("html"), calls)
            ELSE Returned(HtmlPdf, calls)
    ELSE NoLoad

\* a converter followed by the rasterizer of the PDF it wrote
converted(fn, pdf, content, options, env) ==
    LET c1 == <<Call(fn, content)>>
        c2 == Append(c1, Call("_open_pdf_as_images", pdf))
    IN IF env.tool = "convert_raises" THEN Raised(RuntimeError(fn), c1)
       ELSE IF env.tool = "open_raises" THEN Raised(RuntimeError("fitz"), c2)
       ELSE Returned(_open_pdf_as_images(env.pages, options.max_side), c2)

\* lines 370-405: the page images, or the exception
images_of(c, content, options, env) ==
    LET b == branch(c)
    IN IF b = "pdf"
       THEN LET calls == <<Call("_open_pdf_as_images", content)>>
            IN IF env.tool = "open_raises" THEN Raised(RuntimeError("fitz"), calls)
               ELSE Returned(_open_pdf_as_images(env.pages, options.max_side), calls)
       ELSE IF b = "office"
       THEN converted("_libreoffice_to_pdf", OfficePdf, content, options, env)
       ELSE IF b = "html"
       THEN converted("_html_to_pdf", HtmlPdf, content, options, env)
       ELSE IF b = "image"
       THEN LET calls == <<Call("Image.open", content)>>
            IN IF env.tool = "open_raises" THEN Raised(RuntimeError("PIL"), calls)
               ELSE Returned(<<image_resize(env.image, options.max_side)>>, calls)
       ELSE IF last_attempt(c)
       THEN converted("_libreoffice_to_pdf", OfficePdf, content, options, env)
       ELSE Raised(ValueError([text |-> "Unsupported or unknown document type",
                               label |-> c.label, mime |-> c.mime, ext |-> c.ext,
                               src |-> c.src]), <<>>)

\* lines 419-441: the result in the return mode asked for
assembled(images, calls, options, env) ==
    LET mode == options.return_mode
        fmt == options.image_format
        prefix == options.filename_prefix
    IN IF mode = "PIL" THEN Returned(images, calls)
       ELSE IF mode = "BYTES"
       THEN Returned(_images_to_bytes(images, fmt),
                     Append(calls, Call("_images_to_bytes", images)))
       ELSE IF mode = "PATHS"
       THEN Returned([i \in 1..Len(images) |->
                        <<"/", "cwd", "/", "doc_images", "/">>
                        \o zip_entry(i, fmt, prefix, NonePy)], calls)
       ELSE IF mode = "ZIP_BYTES"
       THEN Returned(_images_to_zip_bytes(images, fmt, prefix, options.zip_name_in_zip),
                     Append(calls, Call("_images_to_zip_bytes", images)))
       ELSE IF mode = "PDF_BYTES"
       THEN LET r == _images_to_pdf_bytes(images, options.dpi, env.tool)
                cs == Append(calls, Call("_images_to_pdf_bytes", images))
            IN IF r.exc # NoExc THEN Raised(r.exc, cs) ELSE Returned(r.pdf, cs)
       ELSE Raised(ValueError("Unknown return_mode: " \o mode), calls)

\* the value of a local variable, computed once where it is assigned
only(S) == CHOOSE x \in S : TRUE

\* DocumentToImagesLoader.load(doc, options) in the environment env (what
\* Magika answers, what the tools do, the pages and the image they read)
load(doc, options, env) ==
    only({only({IF d.kind # "none" THEN d
                ELSE only({IF r.kind = "raise" THEN r
                           ELSE assembled(r.value, r.calls, options, env) :
                           r \in {images_of(c, doc.data, options, env)}}) :
                d \in {direct_pdf(c, doc.data, options, env)}}) :
          c \in {classified(doc, env.magika)}})

\* ---- the temporary directories of one call of load
\* what _html_to_pdf renders with: WeasyPrint, or a headless Chrome (no
\* renderer at all is a conversion that raises before any directory is made)
Renderers == {"weasyprint", "chrome"}

Made(dir) == [op |-> "made", dir |-> dir]
Removed(dir) == [op |-> "removed", dir |-> dir]

\* _html_to_pdf whose directory is removed only when Chrome succeeds
_html_to_pdf_keeps(renderer, tool) ==
    IF renderer = "chrome"
    THEN IF tool = "convert_raises" THEN <<Made("html2pdf-")>>
         ELSE <<Made("html2pdf-"), Removed("html2pdf-")>>
    ELSE <<>>

\* lines 166-179: the directories one call of _html_to_pdf makes and
\* removes; the finally runs whether Chrome or the copy raised or not
_html_to_pdf_dirs(renderer, tool) ==
    IF renderer = "chrome"
    THEN <<Made("html2pdf-"), Removed("html2pdf-")>>
    ELSE <<>>

RECURSIVE dirs_of_calls(_, _, _)
dirs_of_calls(calls, renderer, tool) ==
    IF calls = <<>> THEN <<>>
    ELSE (IF Head(calls).fn = "_html_to_pdf"
          THEN _html_to_pdf_dirs(renderer, tool) ELSE <<>>)
         \o dirs_of_calls(Tail(calls), renderer, tool)

\* line 320: everything load calls runs inside
\* with tempfile.TemporaryDirectory(prefix="doc2img-"), which removes the
\* directory when the block is left by return or by an exception
load_dirs(calls, renderer, tool) ==
    <<Made("doc2img-")>> \o dirs_of_calls(calls, renderer, tool)
                         \o <<Removed("doc2img-")>>

\* the directories in place after the events
RECURSIVE dirs_left(_)
dirs_left(events) ==
    IF events = <<>> THEN {}
    ELSE LET e == events[Len(events)]
             before == dirs_left(SubSeq(events, 1, Len(events) - 1))
         IN IF e.op = "made" THEN before \cup {e.dir} ELSE before \ {e.dir}

IdleLd == [pc |-> "idle"]

\* ------------------------------------------------------------ worker.py
Terminal == {"SUCCEEDED", "FAILED"}

\* _mark without the transition to FAILED
_mark_skips_failed(tr, status, err, now_) ==
    IF status = "FAILED" THEN tr
    ELSE [tr EXCEPT !.status = status,
                    !.started_at = IF status = "RUNNING" /\ tr.started_at = NoneTime
                                   THEN now_ ELSE @,
                    !.finished_at = IF status \in Terminal THEN now_ ELSE @,
                    !.error = err]

\* _mark that records a fixed text instead of err
_mark_fixed_error(tr, status, err, now_) ==
    [tr EXCEPT !.status = status,
               !.started_at = IF status = "RUNNING" /\ tr.started_at = NoneTime
                              THEN now_ ELSE @,
               !.finished_at = IF status \in Terminal THEN now_ ELSE @,
               !.error = IF err = NoneStr THEN NoneStr ELSE "task failed"]

\* _mark that stamps an unset start time whatever the status is
_mark_stamps_start(tr, status, err, now_) ==
    [tr EXCEPT !.status = status,
               !.started_at = IF tr.started_at = NoneTime THEN now_ ELSE @,
               !.finished_at = IF status \in Terminal THEN now_ ELSE @,
               !.error = err]

\* _mark(db, tr, status, err) at time now_: the session's row afterwards
_mark(tr, status, err, now_) ==
    [tr EXCEPT !.status = status,
               !.started_at = IF status = "RUNNING" /\ tr.started_at = NoneTime
                              THEN now_ ELSE @,
               !.finished_at = IF status \in Terminal THEN now_ ELSE @,
               !.error = err]

\* -------------------------------------------------------------- state
VARIABLES
    files,      \* table file: file id -> row
    store,      \* object storage: location -> state
    task_run,   \* table task_run: sequence of rows, id = index
    artifact,   \* table artifact: task_run_id -> number of rows
    sent,       \* task_run_ids handed to cel.send_task
    delivered,  \* task_run_id -> deliveries of its message so far
    procs,      \* worker -> the run_task execution it is in
    now,        \* last value datetime.utcnow() returned
    http,       \* the to-pdf request in flight and its response
    mgr,        \* the TaskManager: its _handlers and its last call
    ld          \* the loader.load call: its input, its position, its result

vars == <<files, store, task_run, artifact, sent, delivered, procs, now, http,
          mgr, ld>>

RunIds == 1..MaxRuns

Names == {"to_pdf", "bogus"}

NoTr == TaskRun("", "", "")
NoFile == FileRow("", "", "", <<>>, "")

\* a worker is idle, has loaded tr and f, has marked tr RUNNING, or has
\* ended the call: result is "returned", or "raised" with the exception;
\* dispatched tells whether manager.run was called, data the bytes it got
IdleProc == [pc |-> "idle", task_run_id |-> StaleId, tr |-> NoTr, f |-> NoFile,
             result |-> "none", raised |-> NoExc, dispatched |-> FALSE, data |-> <<>>]

Ended(id, f, result, exc, dispatched, data) ==
    [IdleProc EXCEPT !.pc = "ended", !.task_run_id = id, !.f = f, !.result = result,
                     !.raised = exc, !.dispatched = dispatched, !.data = data]

NoResolve == [kind |-> "none", data |-> <<>>, exc |-> NoExc,
              tried |-> <<>>, fetched |-> <<>>]

IdleHttp == [pc |-> "idle", tr_id |-> StaleId, file_id |-> "", code |-> 0,
             res |-> NoResolve]

\* the file record: uploaded by this service (canonical location), a legacy
\* upload, a record pointing into another bucket, and two malformed URIs
F1(uri, status) == FileRow("f1", "u1", "a.docx", uri, status)
F1base == F1(<<>>, "READY")
CanonicalLoc == Loc(cfg_bucket, new_key(F1base))
LegacyLoc == Loc(cfg_bucket, old_key(F1base))
OtherLoc == Loc(<<"old-bucket">>, <<"src", "/", "a.docx">>)
Locs == {CanonicalLoc, LegacyLoc, OtherLoc}
Uris == {s3_uri(l.bucket, l.key) : l \in Locs}
          \cup {<<"llmops-bucket", "/", "a.docx">>, <<"s3://", "llmops-bucket">>}

\* no run, no message, no request
Empty ==
    /\ task_run = <<>>
    /\ artifact = [i \in RunIds |-> 0]
    /\ sent = {}
    /\ delivered = [i \in RunIds |-> 0]
    /\ procs = [w \in Workers |-> IdleProc]
    /\ now = 1
    /\ http = IdleHttp

NoObjects == [l \in Locs |-> "absent"]
CanonicalUri == s3_uri(CanonicalLoc.bucket, CanonicalLoc.key)
OtherUri == s3_uri(OtherLoc.bucket, OtherLoc.key)
NoSchemeUri == <<"llmops-bucket", "/", "a.docx">>
NoSlashUri == <<"s3://", "llmops-bucket">>

\* the deployments the runs are driven in: an uploaded file whose object is
\* there, is gone or cannot be fetched; a record whose stored location is
\* stale while the canonical key holds the object; a record whose stored
\* location is no s3:// URI; an object of zero length; a file marked DELETED
Scenarios ==
    {<<CanonicalUri, [NoObjects EXCEPT ![CanonicalLoc] = "data"], "READY">>,
     <<CanonicalUri, NoObjects, "READY">>,
     <<CanonicalUri, [NoObjects EXCEPT ![CanonicalLoc] = "error"], "READY">>,
     <<OtherUri, [NoObjects EXCEPT ![CanonicalLoc] = "data"], "READY">>,
     <<NoSchemeUri, NoObjects, "READY">>,
     <<CanonicalUri, [NoObjects EXCEPT ![CanonicalLoc] = "empty"], "READY">>,
     <<CanonicalUri, [NoObjects EXCEPT ![CanonicalLoc] = "data"], "DELETED">>}

Init ==
    /\ \E sc \in Scenarios :
         /\ files = [i \in FileIds |-> F1(sc[1], sc[3])]
         /\ store = sc[2]
    /\ Empty
    /\ mgr = StartedMgr
    /\ ld = IdleLd

\* the file record with any of the stored locations, every location in any
\* state
InitResolve ==
    /\ files \in {[i \in FileIds |-> F1(u, "READY")] : u \in Uris}
    /\ store \in [Locs -> ObjStates]
    /\ Empty
    /\ mgr = StartedMgr
    /\ ld = IdleLd

\* datetime.utcnow() returns now; the next call returns a later time, up to
\* the largest one
Tick == now' = IF now < MaxClock THEN now + 1 ELSE now

RECURSIVE SumTo(_, _)
SumTo(fn, n) == IF n < 1 THEN 0 ELSE fn[n] + SumTo(fn, n - 1)

\* deliveries made so far
Delivered == SumTo(delivered, MaxRuns)

\* ------------------------------------------------------- app.py, submit
Payloads == {<<>>, <<"f1">>, <<"f1", "f1">>, <<"nofile", "f1">>}

\* the file ids of a payload for which run_files creates a run
RECURSIVE valid_ids(_, _)
valid_ids(fs, ids) ==
    IF ids = <<>> THEN <<>>
    ELSE LET fid == Head(ids)
             skip == fid \notin DOMAIN fs \/ fs[fid].status = "DELETED"
         IN IF skip THEN valid_ids(fs, Tail(ids))
            ELSE <<fid>> \o valid_ids(fs, Tail(ids))

\* run_files that inserts its runs as RUNNING
run_files_running(file_ids, name) ==
    LET ok == valid_ids(files, file_ids)
        first == Len(task_run)
    IN /\ first + Len(ok) <= MaxRuns
       /\ task_run' = task_run \o [i \in 1..Len(ok) |-> TaskRun(ok[i], name, "RUNNING")]
       /\ sent' = sent \cup {first + i : i \in 1..Len(ok)}
       /\ UNCHANGED <<files, store, artifact, delivered, procs, now, http, mgr, ld>>

\* POST /files:run.  A 400 response (empty file_ids, no valid file) leaves
\* the tables as they are.
run_files(file_ids, name) ==
    LET ok == valid_ids(files, file_ids)
        first == Len(task_run)
    IN /\ first + Len(ok) <= MaxRuns
       /\ task_run' = task_run \o [i \in 1..Len(ok) |-> TaskRun(ok[i], name, "PENDING")]
       /\ sent' = sent \cup {first + i : i \in 1..Len(ok)}
       /\ UNCHANGED <<files, store, artifact, delivered, procs, now, http, mgr, ld>>

\* ------------------------------------------------------ worker.run_task
\* run_task that raises when the run is absent
run_task_begin_raises(w, id) ==
    /\ procs[w].pc = "idle"
    /\ id \in sent \cup {StaleId}
    /\ IF id \notin DOMAIN task_run
       THEN /\ procs' = [procs EXCEPT ![w] =
                   Ended(id, NoFile, "raised", ValueError("task run not found"),
                         FALSE, <<>>)]
            /\ UNCHANGED <<task_run, now, delivered>>
       ELSE LET tr == task_run[id]
            IN /\ Delivered < MaxDeliveries
               /\ delivered' = [delivered EXCEPT ![id] = @ + 1]
               /\ IF tr.file_id \notin DOMAIN files
                  THEN /\ Tick
                       /\ task_run' = [task_run EXCEPT ![id] =
                              orm_update(@, tr, _mark(tr, "FAILED", "file not found", now))]
                       /\ procs' = [procs EXCEPT ![w] =
                              Ended(id, NoFile, "returned", NoExc, FALSE, <<>>)]
                  ELSE /\ procs' = [procs EXCEPT ![w] =
                                [IdleProc EXCEPT !.pc = "loaded", !.task_run_id = id,
                                                 !.tr = tr, !.f = files[tr.file_id]]]
                       /\ UNCHANGED <<task_run, now>>
    /\ UNCHANGED <<files, store, artifact, sent, http, mgr, ld>>

\* lines 53-59: load the run and its file; a missing file fails the run
run_task_begin(w, id) ==
    /\ procs[w].pc = "idle"
    /\ id \in sent \cup {StaleId}
    /\ IF id \notin DOMAIN task_run
       THEN /\ procs' = [procs EXCEPT ![w] = Ended(id, NoFile, "returned", NoExc, FALSE, <<>>)]
            /\ UNCHANGED <<task_run, now, delivered>>
       ELSE LET tr == task_run[id]
            IN /\ Delivered < MaxDeliveries
               /\ delivered' = [delivered EXCEPT ![id] = @ + 1]
               /\ IF tr.file_id \notin DOMAIN files
                  THEN /\ Tick
                       /\ task_run' = [task_run EXCEPT ![id] =
                              orm_update(@, tr, _mark(tr, "FAILED", "file not found", now))]
                       /\ procs' = [procs EXCEPT ![w] =
                              Ended(id, NoFile, "returned", NoExc, FALSE, <<>>)]
                  ELSE /\ procs' = [procs EXCEPT ![w] =
                                [IdleProc EXCEPT !.pc = "loaded", !.task_run_id = id,
                                                 !.tr = tr, !.f = files[tr.file_id]]]
                       /\ UNCHANGED <<task_run, now>>
    /\ UNCHANGED <<files, store, artifact, sent, http, mgr, ld>>

\* line 61: _mark(db, tr, "RUNNING")
run_task_mark_running(w) ==
    LET p == procs[w]
    IN /\ p.pc = "loaded"
       /\ Tick
       /\ LET m == _mark(p.tr, "RUNNING", NoneStr, now)
          IN /\ task_run' = [task_run EXCEPT ![p.task_run_id] = orm_update(@, p.tr, m)]
             /\ procs' = [procs EXCEPT ![w] = [p EXCEPT !.pc = "running", !.tr = m]]
       /\ UNCHANGED <<files, store, artifact, sent, delivered, http, mgr, ld>>

\* lines 62-68: data = _get_source_bytes(f); manager.run(tr, f, data);
\* _mark SUCCEEDED, or _mark FAILED with str(e) and re-raise
run_task_execute(w) ==
    LET p == procs[w]
        src == _get_source_bytes(store, p.f)
    IN /\ p.pc = "running"
       /\ \E o \in HandlerOutcomes(strip_lower(p.tr.name)) :
            LET r == IF src.exc # NoExc
                     THEN [exc |-> src.exc, artifacts |-> 0]
                     ELSE manager_run(p.tr, o)
                m == IF r.exc = NoExc
                     THEN _mark(p.tr, "SUCCEEDED", NoneStr, now)
                     ELSE _mark(p.tr, "FAILED", str_e(r.exc), now)
            IN /\ Tick
               /\ artifact' = [artifact EXCEPT ![p.task_run_id] = @ + r.artifacts]
               /\ task_run' = [task_run EXCEPT ![p.task_run_id] = orm_update(@, p.tr, m)]
               /\ procs' = [procs EXCEPT ![w] =
                     Ended(p.task_run_id, p.f,
                           IF r.exc = NoExc THEN "returned" ELSE "raised",
                           r.exc, src.exc = NoExc, src.data)]
       /\ UNCHANGED <<files, store, sent, delivered, http, mgr, ld>>

\* the call returns or raises to the queue transport
run_task_exit(w) ==
    /\ procs[w].pc = "ended"
    /\ procs' = [procs EXCEPT ![w] = IdleProc]
    /\ UNCHANGED <<files, store, task_run, artifact, sent, delivered, now, http, mgr, ld>>

\* -------------------------------------- app.py, POST /files/{id}/to-pdf
\* lines 167-178: 404 for a missing file, resolve the source bytes, insert
\* the TaskRun of the synchronous task
file_to_pdf_begin(file_id) ==
    /\ http.pc = "idle"
    /\ IF file_id \notin DOMAIN files \/ files[file_id].status = "DELETED"
       THEN /\ http' = [IdleHttp EXCEPT !.pc = "responded", !.code = 404]
            /\ UNCHANGED task_run
       ELSE LET f == files[file_id]
                res == _resolve_source_bytes_or_404(store, f)
            IN IF res.kind = "http404"
               THEN /\ http' = [IdleHttp EXCEPT !.pc = "responded", !.file_id = f.id,
                                                !.code = 404, !.res = res]
                    /\ UNCHANGED task_run
               ELSE IF res.kind = "raise"
               THEN /\ http' = [IdleHttp EXCEPT !.pc = "responded", !.file_id = f.id,
                                                !.code = 500, !.res = res]
                    /\ UNCHANGED task_run
               ELSE /\ Len(task_run) < MaxRuns
                    /\ task_run' = Append(task_run, TaskRun(f.id, "to_pdf", "RUNNING"))
                    /\ http' = [pc |-> "created", tr_id |-> Len(task_run) + 1,
                                file_id |-> f.id, code |-> 0, res |-> res]
    /\ UNCHANGED <<files, store, artifact, sent, delivered, procs, now, mgr, ld>>

\* lines 180-198: convert and upload, then SUCCEEDED with an Artifact, or
\* FAILED with str(e) and re-raise
file_to_pdf_finish ==
    /\ http.pc = "created"
    /\ \E h \in {NoExc} \cup HandlerExcs :
         LET id == http.tr_id
             tr == TaskRun(http.file_id, "to_pdf", "RUNNING")
             m == IF h = NoExc
                  THEN [tr EXCEPT !.status = "SUCCEEDED"]
                  ELSE [tr EXCEPT !.status = "FAILED", !.error = str_e(h)]
         IN /\ task_run' = [task_run EXCEPT ![id] = orm_update(@, tr, m)]
            /\ artifact' = [artifact EXCEPT ![id] = IF h = NoExc THEN @ + 1 ELSE @]
            /\ http' = [http EXCEPT !.pc = "responded",
                                    !.code = IF h = NoExc THEN 200 ELSE 500]
    /\ UNCHANGED <<files, store, sent, delivered, procs, now, mgr, ld>>

\* the response is sent
file_to_pdf_respond ==
    /\ http.pc = "responded"
    /\ http' = IdleHttp
    /\ UNCHANGED <<files, store, task_run, artifact, sent, delivered, procs, now, mgr, ld>>

\* ---------------------------------------------------------- environment
\* the file table is owned by an external collaborator: a row can be marked
\* DELETED or be removed
file_deleted(fid) ==
    /\ fid \in DOMAIN files
    /\ files[fid].status # "DELETED"
    /\ files' = [files EXCEPT ![fid].status = "DELETED"]
    /\ UNCHANGED <<store, task_run, artifact, sent, delivered, procs, now, http, mgr, ld>>

file_removed(fid) ==
    /\ fid \in DOMAIN files
    /\ files' = [i \in DOMAIN files \ {fid} |-> files[i]]
    /\ UNCHANGED <<store, task_run, artifact, sent, delivered, procs, now, http, mgr, ld>>

Next ==
    \/ \E ids \in Payloads, name \in Names : run_files(ids, name)
    \/ \E w \in Workers, id \in {StaleId} \cup RunIds : run_task_begin(w, id)
    \/ \E w \in Workers : run_task_mark_running(w)
    \/ \E w \in Workers : run_task_execute(w)
    \/ \E w \in Workers : run_task_exit(w)
    \/ \E fid \in FileIds \cup {"nofile"} : file_to_pdf_begin(fid)
    \/ file_to_pdf_finish
    \/ file_to_pdf_respond
    \/ \E fid \in FileIds : file_removed(fid)

Spec == Init /\ [][Next]_vars

\* the same with every file record kept
NextFilesKept ==
    \/ \E ids \in Payloads, name \in Names : run_files(ids, name)
    \/ \E w \in Workers, id \in {StaleId} \cup RunIds : run_task_begin(w, id)
    \/ \E w \in Workers : run_task_mark_running(w)
    \/ \E w \in Workers : run_task_execute(w)
    \/ \E w \in Workers : run_task_exit(w)
    \/ \E fid \in FileIds \cup {"nofile"} : file_to_pdf_begin(fid)
    \/ file_to_pdf_finish
    \/ file_to_pdf_respond

SpecFilesKept == Init /\ [][NextFilesKept]_vars

\* source resolution on its own: the requests of the to-pdf endpoint over
\* every state of the three candidate locations
NextResolve ==
    \/ \E fid \in FileIds \cup {"nofile"} : file_to_pdf_begin(fid)
    \/ file_to_pdf_finish
    \/ file_to_pdf_respond
    \/ \E fid \in FileIds : file_deleted(fid)

SpecResolve == InitResolve /\ [][NextResolve]_vars

\* the worker on runs of each registered handler: one uploaded file whose
\* object is in place
InitHandlers ==
    /\ files = [i \in FileIds |-> F1(CanonicalUri, "READY")]
    /\ store = [NoObjects EXCEPT ![CanonicalLoc] = "data"]
    /\ Empty
    /\ mgr = StartedMgr
    /\ ld = IdleLd

NextHandlers ==
    \/ \E name \in handlers : run_files(<<"f1">>, name)
    \/ \E w \in Workers, id \in RunIds : run_task_begin(w, id)
    \/ \E w \in Workers : run_task_mark_running(w)
    \/ \E w \in Workers : run_task_execute(w)
    \/ \E w \in Workers : run_task_exit(w)

SpecHandlers == InitHandlers /\ [][NextHandlers]_vars

\* ------------------------------------------------- tasks/manager.py, calls
\* the tables and the workers of a process that serves no request
Quiet ==
    /\ files = [i \in FileIds |-> F1(CanonicalUri, "READY")]
    /\ store = [NoObjects EXCEPT ![CanonicalLoc] = "data"]
    /\ Empty

\* manager = TaskManager()
InitManager == Quiet /\ mgr = NewMgr /\ ld = IdleLd

\* manager.register(handler)
TaskManager_register(handler) ==
    LET r == register(mgr.handlers, handler)
    IN /\ mgr' = [handlers |-> r.handlers, op |-> "register", arg |-> handler.name,
                  h |-> NoExc, exc |-> r.exc, invoked |-> <<>>]
       /\ UNCHANGED <<files, store, task_run, artifact, sent, delivered, procs, now,
                      http, ld>>

\* manager.run(tr, f, data) for a run named name whose handler ends as h
TaskManager_run(name, h) ==
    LET r == run(mgr.handlers, name, h)
    IN /\ mgr' = [handlers |-> mgr.handlers, op |-> "run", arg |-> name,
                  h |-> h, exc |-> r.exc, invoked |-> r.invoked]
       /\ UNCHANGED <<files, store, task_run, artifact, sent, delivered, procs, now,
                      http, ld>>

RunNames == {"to_pdf", " To_PDF ", "doc_convert", "vlm_ocr", "bogus"}

NextManager ==
    \/ \E handler \in HandlerObjs : TaskManager_register(handler)
    \/ \E name \in RunNames, h \in {NoExc} \cup HandlerExcs : TaskManager_run(name, h)

SpecManager == InitManager /\ [][NextManager]_vars

\* ------------------------------------------------------ loader.py, calls
\* the documents handed to load: byte buffers (empty, a PDF, a PNG image, a
\* WEBP image, text) and files named with and without an extension
FileBytes == <<"file", "body">>
Docs ==
    {Bytes(b) : b \in {<<>>, <<PdfMagic, "body">>, <<PngMagic, "body">>,
                       <<"RIFF", "size", "WEBP", "body">>, <<"text">>}}
    \cup {Path(<<"a">> \o e, FileBytes) : e \in
            {<<>>, Ext("pdf"), Ext("PDF"), Ext("docx"), Ext("html"), Ext("png"),
             Ext("bin"), Ext("txt"), Ext("xyz")}}

Modes == {"PIL", "BYTES", "PATHS", "ZIP_BYTES", "PDF_BYTES"}
Hints == {NonePy, <<>>, <<"scan", ".", "png">>, <<"scan">>, <<".", "scan">>}

\* the options of the callers (to_pdf.py:26, doc_convert.py:32-35 with and
\* without max_side) and of the other return modes
OptionsSet ==
    {LoadOptions(mode, "PNG", NoMaxSide, NonePy) : mode \in Modes}
    \cup {LoadOptions("ZIP_BYTES", "JPEG", NoMaxSide, hint) : hint \in Hints}
    \cup {LoadOptions(mode, "PNG", 2, NonePy) : mode \in {"BYTES", "PDF_BYTES"}}

\* the pixmap of page i of a document, and the image a file decodes to
page_size(i) == <<2 * i + 1, 3>>
Pages == {[i \in 1..n |-> page_size(i)] : n \in 0..MaxPages}
Envs ==
    [magika : Labels \cup {MagikaRaises}, tool : Tools, pages : Pages,
     image : {<<4, 3>>}, html : {"weasyprint"}]

InitLoader == Quiet /\ mgr = StartedMgr /\ ld = IdleLd

\* loader.load(doc, options) runs to its return or its exception
load_call(doc, options, env) ==
    /\ ld.pc = "idle"
    /\ \E res \in {load(doc, options, env)} :
         \E dirs \in {load_dirs(res.calls, env.html, env.tool)} :
            ld' = [pc |-> "done", doc |-> doc, options |-> options, env |-> env,
                   c |-> classified(doc, env.magika), res |-> res,
                   dirs |-> dirs, left |-> dirs_left(dirs)]
    /\ UNCHANGED <<files, store, task_run, artifact, sent, delivered, procs, now,
                   http, mgr>>

\* the caller has the result
load_return ==
    /\ ld.pc = "done"
    /\ ld' = IdleLd
    /\ UNCHANGED <<files, store, task_run, artifact, sent, delivered, procs, now,
                   http, mgr>>

NextLoader ==
    \/ \E doc \in Docs, options \in OptionsSet, env \in Envs :
          load_call(doc, options, env)
    \/ load_return

SpecLoader == InitLoader /\ [][NextLoader]_vars

\* ------------------------------------- loader.py, temporary directories
\* load in every return mode, with either renderer, on a one-page document
TempOptions == {LoadOptions(mode, "PNG", NoMaxSide, NonePy) : mode \in Modes}
TempEnvs ==
    [magika : Labels \cup {MagikaRaises}, tool : Tools,
     pages : {<<page_size(1)>>}, image : {<<4, 3>>}, html : Renderers]

NextTemp ==
    \/ \E doc \in Docs, options \in TempOptions, env \in TempEnvs :
          load_call(doc, options, env)
    \/ load_return

SpecTemp == InitLoader /\ [][NextTemp]_vars

\* ------------------------------------------- loader.py, type detection
\* byte buffers by their first chunks, and files by their names
Buffers ==
    {<<>>, <<PdfMagic>>, <<PdfMagic, "body">>, <<PngMagic, "body">>,
     <<JpegMagic, "body">>, <<"RIFF", "size", "WEBP", "body">>,
     <<"RIFF", "size", "WAVE", "body">>, <<"text">>, <<"body", PdfMagic>>}
    \cup {<<t, "body">> : t \in TiffMagics}
DetectDocs ==
    {Bytes(b) : b \in Buffers}
    \cup {Path(<<"a">> \o e, FileBytes) : e \in
            {<<>>, Ext("pdf"), Ext("PDF"), Ext("docx"), Ext("bin"), Ext("xyz")}}

\* _detect_type(doc) is called and answers
detect_call(doc, mg) ==
    /\ ld.pc = "idle"
    /\ ld' = [pc |-> "detected", doc |-> doc, magika |-> mg,
              det |-> _detect_type(doc, mg)]
    /\ UNCHANGED <<files, store, task_run, artifact, sent, delivered, procs, now,
                   http, mgr>>

detect_return ==
    /\ ld.pc = "detected"
    /\ ld' = IdleLd
    /\ UNCHANGED <<files, store, task_run, artifact, sent, delivered, procs, now,
                   http, mgr>>

NextDetect ==
    \/ \E doc \in DetectDocs, mg \in Labels \cup {MagikaRaises} : detect_call(doc, mg)
    \/ detect_return

SpecDetect == InitLoader /\ [][NextDetect]_vars

\* ------------------------------------------- loader.py, archive assembly
ZipPrefixes == {<<"page">>, <<"scan", ".", "v2">>}
ZipHints == Hints \cup {<<"a", ".", "b", ".", "png">>}

\* doc_convert.py:39-44: the archive DocConvertHandler.run writes itself
images_zip(images_bytes, image_format) ==
    LET ext == IF image_format = "JPEG" THEN "jpg" ELSE lower(image_format)
    IN [i \in 1..Len(images_bytes) |->
          [name |-> <<"page", "_">> \o fmt_04d(i) \o <<".", ext>>,
           data |-> images_bytes[i]]]

\* DocConvertHandler.run from the loaded page images to the archive
doc_convert_zip(n, image_format) ==
    /\ ld.pc = "idle"
    /\ n > 0
    /\ LET images == [i \in 1..n |-> page_size(i)]
       IN ld' = [pc |-> "zipped", by |-> "doc_convert", images |-> images,
                 fmt |-> image_format, prefix |-> <<"page">>, name_hint |-> NonePy,
                 entries |-> images_zip(_images_to_bytes(images, image_format),
                                        image_format)]
    /\ UNCHANGED <<files, store, task_run, artifact, sent, delivered, procs, now,
                   http, mgr>>

\* self._images_to_zip_bytes(images, fmt, prefix, name_hint) for n images
zip_call(n, fmt, prefix, name_hint) ==
    /\ ld.pc = "idle"
    /\ LET images == [i \in 1..n |-> page_size(i)]
       IN ld' = [pc |-> "zipped", by |-> "loader", images |-> images, fmt |-> fmt,
                 prefix |-> prefix,
                 name_hint |-> name_hint,
                 entries |-> _images_to_zip_bytes(images, fmt, prefix, name_hint)]
    /\ UNCHANGED <<files, store, task_run, artifact, sent, delivered, procs, now,
                   http, mgr>>

zip_return ==
    /\ ld.pc = "zipped"
    /\ ld' = IdleLd
    /\ UNCHANGED <<files, store, task_run, artifact, sent, delivered, procs, now,
                   http, mgr>>

NextArchive ==
    \/ \E n \in 0..MaxEntries, fmt \in {"PNG", "JPEG"}, prefix \in ZipPrefixes,
          name_hint \in ZipHints : zip_call(n, fmt, prefix, name_hint)
    \/ \E n \in 0..MaxEntries, image_format \in {"PNG", "JPEG"} :
          doc_convert_zip(n, image_format)
    \/ zip_return

SpecArchive == InitLoader /\ [][NextArchive]_vars

\* ------------------------------------------------ loader.py, max_side
\* lines 200-205: the max_side step on one page of _open_pdf_as_images
pdf_page_resized(size, max_side) ==
    /\ ld.pc = "idle"
    /\ ld' = [pc |-> "resized", backend |-> "pdf", size |-> size,
              max_side |-> max_side, out |-> resize(size, max_side)]
    /\ UNCHANGED <<files, store, task_run, artifact, sent, delivered, procs, now,
                   http, mgr>>

\* lines 391-396: the max_side step of the image branch of load
image_resized(size, max_side) ==
    /\ ld.pc = "idle"
    /\ ld' = [pc |-> "resized", backend |-> "image", size |-> size,
              max_side |-> max_side, out |-> image_resize(size, max_side)]
    /\ UNCHANGED <<files, store, task_run, artifact, sent, delivered, procs, now,
                   http, mgr>>

resize_return ==
    /\ ld.pc = "resized"
    /\ ld' = IdleLd
    /\ UNCHANGED <<files, store, task_run, artifact, sent, delivered, procs, now,
                   http, mgr>>

Dims == 1..MaxDim

NextResize ==
    \/ \E w \in Dims, h \in Dims, max_side \in Dims : pdf_page_resized(<<w, h>>, max_side)
    \/ \E w \in Dims, h \in Dims, max_side \in Dims : image_resized(<<w, h>>, max_side)
    \/ resize_return

SpecResize == InitLoader /\ [][NextResize]_vars

\* ================================================================ claims
Runs == DOMAIN task_run

\* a worker is between loading run id and the end of its run_task call
Driving(w, id) == procs[w].task_run_id = id /\ procs[w].pc \in {"loaded", "running"}

\* the run_task call of worker w went past the loading of the file record
Executed(w) == procs[w].pc = "ended" /\ procs[w].f # NoFile

\* C1: once a run's status is SUCCEEDED or FAILED no step changes it, for
\* any sequence of deliveries of worker.run_task (redelivery, interleaving).
C1_TerminalIsFinal ==
    [][\A id \in Runs :
         task_run[id].status \in Terminal => task_run'[id].status = task_run[id].status]_vars

\* C2: a run created PENDING by run_files and driven once by run_task is
\* SUCCEEDED or FAILED when that call has returned or raised.
C2_DrivenOnceEndsTerminal ==
    \A id \in Runs :
        (id \in sent /\ delivered[id] = 1 /\ \A w \in Workers : ~Driving(w, id))
            => task_run[id].status \in Terminal

\* a single drive has raised and has left its run FAILED
C2_Witness ==
    \E id \in Runs, w \in Workers :
        /\ delivered[id] = 1
        /\ procs[w].pc = "ended" /\ procs[w].task_run_id = id
        /\ procs[w].result = "raised"
        /\ task_run[id].status = "FAILED"

\* C3: in every reachable state the error of a run is set if and only if its
\* status is FAILED.
C3_ErrorIffFailed ==
    \A id \in Runs : (task_run[id].error # NoneStr) <=> (task_run[id].status = "FAILED")

\* C4: a run that is SUCCEEDED or FAILED has finished_at set, and
\* finished_at >= started_at when started_at is set, for runs driven by
\* run_task and for runs of the to-pdf endpoint.
C4_FinishStamped ==
    \A id \in Runs :
        task_run[id].status \in Terminal =>
            /\ task_run[id].finished_at # NoneTime
            /\ task_run[id].started_at # NoneTime =>
                   task_run[id].finished_at >= task_run[id].started_at

\* C5 as stated: every TaskRun row, whichever operation inserts it, is
\* inserted with status PENDING.
C5_CreatedPending ==
    [][\A id \in DOMAIN task_run' \ Runs : task_run'[id].status = "PENDING"]_vars

\* C5 amended: a row inserted by POST /files:run is PENDING and a row
\* inserted by the to-pdf endpoint is RUNNING (it is never PENDING); a run
\* leaves PENDING only by a step of a run_task call on that run.
C5_SubmittedPending ==
    [][/\ \A id \in DOMAIN task_run' \ Runs :
            IF id \in sent'
            THEN task_run'[id].status = "PENDING"
            ELSE /\ task_run'[id].status = "RUNNING"
                 /\ http'.pc = "created" /\ http'.tr_id = id
       /\ \A id \in Runs :
            (task_run[id].status = "PENDING" /\ task_run'[id].status # "PENDING") =>
                \E w \in Workers :
                    /\ procs'[w] # procs[w]
                    /\ procs'[w].task_run_id = id
                    /\ procs'[w].pc \in {"running", "ended"}]_vars

\* a run submitted by POST /files:run has been moved to RUNNING by a worker
C5_Witness ==
    \E id \in Runs, w \in Workers :
        /\ id \in sent
        /\ procs[w].pc = "running" /\ procs[w].task_run_id = id
        /\ task_run[id].status = "RUNNING"

\* C6: when source fetching or the handler raises in run_task, the run
\* becomes FAILED with the exception's message as error and the exception is
\* raised to the caller; otherwise it becomes SUCCEEDED and nothing is raised.
C6_RaiseMarksFailed ==
    [][\A w \in Workers :
         (procs[w].pc = "running" /\ procs'[w].pc = "ended") =>
            LET id == procs[w].task_run_id
                src == _get_source_bytes(store, procs[w].f)
                unknown == strip_lower(procs[w].tr.name) \notin handlers
                e == procs'[w].raised
            IN /\ src.exc # NoExc => e = src.exc
               /\ (src.exc = NoExc /\ unknown) => e.type = "ValueError"
               /\ IF e # NoExc
                  THEN /\ procs'[w].result = "raised"
                       /\ task_run'[id].status = "FAILED"
                       /\ task_run'[id].error = str_e(e)
                  ELSE /\ procs'[w].result = "returned"
                       /\ task_run'[id].status = "SUCCEEDED"]_vars

\* a handler has raised, and the run is FAILED with that exception's message
C6_Witness ==
    \E w \in Workers :
        /\ Executed(w) /\ procs[w].dispatched
        /\ procs[w].raised \in HandlerExcs
        /\ task_run[procs[w].task_run_id].status = "FAILED"
        /\ task_run[procs[w].task_run_id].error = str_e(procs[w].raised)

\* the stored location of f parses and holds no object
StaleStored(f) ==
    LET sp == split_s3_uri(f.storage_uri)
    IN sp.exc = NoExc /\ get_object(store, sp.bucket, sp.key).exc = ClientError("NoSuchKey")

\* the canonical key of f holds an object
CanonicalHolds(f) == get_object(store, cfg_bucket, new_key(f)).exc = NoExc

\* C7: when run_task drives a run whose file's stored location holds no
\* object while the canonical key does, the handler is dispatched with the
\* bytes of the canonical key.
C7_WorkerUsesFallback ==
    \A w \in Workers :
        (Executed(w) /\ StaleStored(procs[w].f) /\ CanonicalHolds(procs[w].f)) =>
            /\ procs[w].dispatched
            /\ procs[w].data = get_object(store, cfg_bucket, new_key(procs[w].f)).data

\* the to-pdf endpoint has answered a request for which it resolved the
\* source bytes of file f
Resolved(f) ==
    /\ http.pc = "responded"
    /\ http.res.kind # "none"
    /\ http.file_id \in DOMAIN files
    /\ f = files[http.file_id]

\* the candidate locations of f, in order; a stored location that is no
\* s3://bucket/key URI names no location
Candidates(f) ==
    LET sp == split_s3_uri(f.storage_uri)
    IN (IF sp.exc = NoExc THEN <<Loc(sp.bucket, sp.key)>> ELSE <<>>)
       \o <<Loc(cfg_bucket, new_key(f)), Loc(cfg_bucket, old_key(f))>>

Holds(l) == get_object(store, l.bucket, l.key).exc = NoExc

\* index of the first candidate of cs that holds an object, 0 when none does
RECURSIVE FirstHit(_, _)
FirstHit(cs, i) ==
    IF i > Len(cs) THEN 0
    ELSE IF Holds(cs[i]) THEN i
    ELSE FirstHit(cs, i + 1)

\* C8: resolution attempts the candidates in order, returns the bytes of the
\* first candidate that holds an object and attempts no candidate after it.
C8_FirstHitWins ==
    \A f \in {files[i] : i \in DOMAIN files} :
        Resolved(f) =>
            LET cs == Candidates(f)
                n == FirstHit(cs, 1)
            IN IF n = 0
               THEN http.res.fetched = cs
               ELSE /\ http.res.fetched = SubSeq(cs, 1, n)
                    /\ http.res.kind = "return"
                    /\ http.res.data = get_object(store, cs[n].bucket, cs[n].key).data

TagsOf(tried) == [i \in 1..Len(tried) |-> tried[i].from]

\* C9: when no candidate yields bytes, resolution fails with a 404 whose
\* payload lists the three attempted pairs, for every file record.
C9_ListsAllThree ==
    \A f \in {files[i] : i \in DOMAIN files} :
        (Resolved(f) /\ FirstHit(Candidates(f), 1) = 0) =>
            /\ http.res.kind = "http404"
            /\ http.code = 404
            /\ TagsOf(http.res.tried) = <<"db.storage_uri", "new_rule", "old_rule">>

\* C10: a fetch error other than missing-object fails only its candidate:
\* resolution fails only after every candidate was attempted.
C10_HardErrorContinues ==
    \A f \in {files[i] : i \in DOMAIN files} :
        (Resolved(f) /\ http.res.kind \in {"raise", "http404"}) =>
            http.res.fetched = Candidates(f)

\* C11: register fails when a handler is registered under the same name
\* after trimming and lowering, a failed register leaves the registry as it
\* was, and the handler registered first stays the one run dispatches to.
C11_DuplicateRegisterFails ==
    [][/\ \A k \in DOMAIN mgr.handlers :
            k \in DOMAIN mgr'.handlers /\ mgr'.handlers[k] = mgr.handlers[k]
       /\ mgr'.op = "register" =>
            /\ strip_lower(mgr'.arg) \in DOMAIN mgr.handlers =>
                  mgr'.exc.type = "ValueError"
            /\ mgr'.exc # NoExc => mgr'.handlers = mgr.handlers
       /\ mgr'.op = "run" /\ strip_lower(mgr'.arg) \in DOMAIN mgr.handlers =>
            mgr'.invoked = <<mgr.handlers[strip_lower(mgr'.arg)]>>]_vars

\* a handler named " To_PDF " was refused while ToPdfHandler is registered
C11_Witness ==
    /\ mgr.op = "register"
    /\ mgr.arg = " To_PDF "
    /\ mgr.exc.type = "ValueError"
    /\ "to_pdf" \in DOMAIN mgr.handlers
    /\ mgr.handlers["to_pdf"] = ToPdfHandler.id

\* C12: run raises the unknown task error and calls no handler when no
\* handler is registered under the run's name; otherwise it calls the handler
\* registered under that name once and no other, leaves the registry as it
\* was, and raises what the handler raised.
C12_DispatchByName ==
    [][mgr'.op = "run" =>
         LET key == strip_lower(mgr'.arg)
         IN /\ mgr'.handlers = mgr.handlers
            /\ IF key \notin DOMAIN mgr.handlers
               THEN /\ mgr'.exc = ValueError("unknown task: " \o key)
                    /\ mgr'.invoked = <<>>
               ELSE /\ mgr'.invoked = <<mgr.handlers[key]>>
                    /\ mgr'.exc = mgr'.h]_vars

\* a dispatch under a name in other case whose handler raised
C12_Witness ==
    /\ mgr.op = "run"
    /\ mgr.arg = " To_PDF "
    /\ mgr.invoked = <<ToPdfHandler.id>>
    /\ mgr.exc \in HandlerExcs


\* the call of load has ended
Loaded == ld.pc = "done"

\* the families an input belongs to, and the earliest of them in the order
\* PDF, Office, HTML, Image ("fallback" when there is none)
Families(c) ==
    {fam \in {"pdf", "office", "html", "image"} :
        \/ fam = "pdf" /\ is_pdf(c)
        \/ fam = "office" /\ is_office(c)
        \/ fam = "html" /\ is_html(c)
        \/ fam = "image" /\ is_image(c)}
Order == <<"pdf", "office", "html", "image">>
Earliest(c) ==
    IF Families(c) = {} THEN "fallback"
    ELSE Order[CHOOSE i \in 1..4 :
                 /\ Order[i] \in Families(c)
                 /\ \A j \in 1..(i - 1) : Order[j] \notin Families(c)]

\* the names of the functions load called, in order
Fns(res) == [i \in 1..Len(res.calls) |-> res.calls[i].fn]
Called(res, fn) == \E i \in 1..Len(res.calls) : res.calls[i].fn = fn

\* the backend that handles a family: what load calls first
FirstCall(fam, direct) ==
    CASE fam = "pdf" -> IF direct THEN "none" ELSE "_open_pdf_as_images"
      [] fam = "office" -> "_libreoffice_to_pdf"
      [] fam = "html" -> "_html_to_pdf"
      [] fam = "image" -> "Image.open"
      [] OTHER -> "_libreoffice_to_pdf"

C14_DirectPdfSkipsRaster ==
    Loaded /\ ld.options.return_mode = "PDF_BYTES" =>
      LET fam == Earliest(ld.c)
      IN /\ fam \in {"pdf", "office", "html"} =>
              /\ ~Called(ld.res, "_open_pdf_as_images")
              /\ ~Called(ld.res, "_images_to_pdf_bytes")
              /\ ld.res.kind = "return" =>
                    ld.res.value = CASE fam = "pdf" -> ld.doc.data
                                     [] fam = "office" -> OfficePdf
                                     [] OTHER -> HtmlPdf
         /\ Called(ld.res, "_images_to_pdf_bytes") => fam \in {"image", "fallback"}

\* a docx file was converted to PDF by LibreOffice alone
C14_Witness ==
    /\ Loaded
    /\ ld.options.return_mode = "PDF_BYTES"
    /\ Earliest(ld.c) = "office"
    /\ ld.res.kind = "return"
    /\ ld.res.value = OfficePdf
    /\ Fns(ld.res) = <<"_libreoffice_to_pdf">>

\* C15: for PDF input in PDF mode load returns the bytes of the input, given
\* as bytes or as a path, and calls no backend.
C15_PdfPassThrough ==
    Loaded /\ ld.options.return_mode = "PDF_BYTES" /\ Earliest(ld.c) = "pdf" =>
      /\ ld.res.kind = "return"
      /\ ld.res.value = ld.doc.data
      /\ ld.res.calls = <<>>

\* a file named a.PDF was returned as it is
C15_Witness ==
    /\ Loaded
    /\ ld.options.return_mode = "PDF_BYTES"
    /\ ld.doc.kind = "path"
    /\ ld.c.label # "pdf"
    /\ ld.c.ext = Ext("pdf")
    /\ ld.res.kind = "return"
    /\ ld.res.value = FileBytes

\* the extension is missing or is the .bin of the temporary file
Generic(ext) == ext \in {NonePy, <<>>, Ext("bin")}

\* C16: unmatched input with a non-generic extension gets one attempt
\* through the office converter; unmatched input without extension (or with
\* .bin) fails with the unsupported type error that names label, mime and
\* extension, and no backend is called.
C16_FallbackOneAttempt ==
    Loaded /\ Earliest(ld.c) = "fallback" =>
      IF Generic(ld.c.ext)
      THEN /\ ld.res.kind = "raise"
           /\ ld.res.exc.type = "ValueError"
           /\ ld.res.exc.arg.label = ld.c.label
           /\ ld.res.exc.arg.mime = ld.c.mime
           /\ ld.res.exc.arg.ext = ld.c.ext
           /\ ld.res.calls = <<>>
      ELSE /\ Cardinality({i \in 1..Len(ld.res.calls) :
                              ld.res.calls[i].fn = "_libreoffice_to_pdf"}) = 1
           /\ ld.res.calls[1].fn = "_libreoffice_to_pdf"
           /\ ~Called(ld.res, "_html_to_pdf")
           /\ ~Called(ld.res, "Image.open")

\* text bytes were refused, no backend called
C16_Witness ==
    /\ Loaded
    /\ ld.doc = Bytes(<<"text">>)
    /\ ld.c.label = "txt"
    /\ ld.c.ext = Ext("bin")
    /\ ld.res.kind = "raise"
    /\ ld.res.calls = <<>>

\* the rasterizer opened a document and found no page
NoPages ==
    /\ ld.doc.data # <<>>
    /\ Called(ld.res, "_open_pdf_as_images")
    /\ ld.env.tool \notin {"convert_raises", "open_raises"}
    /\ ld.env.pages = <<>>

\* C18: when the rasterizing path yields no page load fails, in every
\* return mode, and returns no empty list, archive or PDF.
C18_EmptyPagesFail ==
    Loaded /\ NoPages => ld.res.kind = "raise"


\* C17: loader.load is never entered with a buffer of zero length: a handler
\* dispatched by run_task and the conversion of the to-pdf endpoint get
\* source bytes that are not empty.
C17_EmptyBytesRejected ==
    /\ \A w \in Workers :
          (/\ procs[w].pc = "ended"
           /\ procs[w].dispatched
           /\ strip_lower(task_run[procs[w].task_run_id].name) \in handlers)
          => procs[w].data # <<>>
    /\ http.pc = "created" => http.res.data # <<>>


\* the index in four decimal digits
Pad4(i) ==
    <<Digits[((i \div 1000) % 10) + 1], Digits[((i \div 100) % 10) + 1],
      Digits[((i \div 10) % 10) + 1], Digits[(i % 10) + 1]>>

\* a name hint without its extension, and the extension (none: the format)
HintStem(hint) ==
    CASE hint = <<"scan", ".", "png">> -> <<"scan">>
      [] hint = <<"a", ".", "b", ".", "png">> -> <<"a", ".", "b">>
      [] OTHER -> hint
HintExt(hint, fmt) ==
    IF hint \in {<<"scan", ".", "png">>, <<"a", ".", "b", ".", "png">>}
    THEN <<".", "png">>
    ELSE <<".", IF fmt = "JPEG" THEN "jpeg" ELSE "png">>

\* C19: the archive of n page images has n entries; entry i, in page order
\* from 1, is named {hint without extension}_{i:04d}.{ext} when a name hint
\* is given and {prefix}_{i:04d}.{format} otherwise (the format in lower
\* case; the handler's own archive writes jpg for JPEG), and the names differ.
C19_ArchiveEntries ==
    ld.pc = "zipped" =>
      LET given == ld.name_hint \notin {NonePy, <<>>}
          stem == IF given THEN HintStem(ld.name_hint) ELSE ld.prefix
          ext == CASE given -> HintExt(ld.name_hint, ld.fmt)
                   [] ~given /\ ld.by = "doc_convert" /\ ld.fmt = "JPEG" -> <<".", "jpg">>
                   [] OTHER -> HintExt(<<>>, ld.fmt)
      IN /\ Len(ld.entries) = Len(ld.images)
         /\ \A i \in 1..Len(ld.entries) :
               /\ ld.entries[i].name = stem \o <<"_">> \o Pad4(i) \o ext
               /\ ld.entries[i].data = encoded(ld.images[i], ld.fmt)
         /\ \A i, j \in 1..Len(ld.entries) :
               i # j => ld.entries[i].name # ld.entries[j].name

\* ten pages and more were archived under a hint with an extension
C19_Witness ==
    /\ ld.pc = "zipped"
    /\ ld.name_hint = <<"scan", ".", "png">>
    /\ Len(ld.entries) >= 10
    /\ ld.entries[10].name = <<"scan", "_", "0", "0", "1", "0", ".", "png">>

\* round(x * ms / m): the nearest integer, halves upwards
Round(x, ms, m) == (2 * x * ms + m) \div (2 * m)

Near(a, b) == a - b \in {-1, 0, 1}

\* C20: a page of size (w, h) keeps its size when max(w, h) <= max_side and
\* otherwise gets (floor(w*max_side/m), floor(h*max_side/m)), m = max(w, h):
\* its longest side is at most max_side, each side within one pixel of
\* round(side * max_side / m), in the PDF backend and in the image backend.
C20_MaxSideScaling ==
    ld.pc = "resized" =>
      LET w == ld.size[1]
          h == ld.size[2]
          m == max(w, h)
          ms == ld.max_side
      IN IF m <= ms THEN ld.out = ld.size
         ELSE /\ ld.out = <<(w * ms) \div m, (h * ms) \div m>>
              /\ max(ld.out[1], ld.out[2]) <= ms
              /\ Near(ld.out[1], Round(w, ms, m))
              /\ Near(ld.out[2], Round(h, ms, m))


\* C21: once started_at of a run is set, no later step changes it, whatever
\* delivery of the run's message the step belongs to.
C21_StartStampedOnce ==
    [][\A id \in DOMAIN task_run :
          task_run[id].started_at # NoneTime
          => task_run'[id].started_at = task_run[id].started_at]_vars

\* worker w begins run_task in this step; the id it was delivered
Begins(w) == procs[w].pc = "idle" /\ procs'[w].pc # "idle"

\* C22: run_task on a run whose file record is absent marks the run FAILED
\* with error 'file not found' and returns: the run is not marked RUNNING,
\* started_at is left as it is, no bytes are fetched, no handler runs,
\* nothing is raised.
C22_FileAbsentFails ==
    [][\A w \in Workers :
          LET id == procs'[w].task_run_id
          IN (/\ Begins(w)
              /\ id \in DOMAIN task_run
              /\ task_run[id].file_id \notin DOMAIN files)
             => /\ procs'[w].pc = "ended"
                /\ procs'[w].result = "returned"
                /\ procs'[w].raised = NoExc
                /\ ~procs'[w].dispatched
                /\ procs'[w].data = <<>>
                /\ task_run'[id].status = "FAILED"
                /\ task_run'[id].error = "file not found"
                /\ task_run'[id].started_at = task_run[id].started_at
                /\ task_run'[id].finished_at # NoneTime
                /\ artifact' = artifact]_vars

\* a first delivery found the file record gone: FAILED, never started
C22_Witness ==
    \E w \in Workers :
        /\ procs[w].pc = "ended"
        /\ procs[w].task_run_id \in DOMAIN task_run
        /\ procs[w].f = NoFile
        /\ task_run[procs[w].task_run_id].status = "FAILED"
        /\ task_run[procs[w].task_run_id].error = "file not found"
        /\ task_run[procs[w].task_run_id].started_at = NoneTime

\* C23: run_task for an id without TaskRun row changes no table, fetches
\* nothing, runs no handler and returns.
C23_StaleIsNoOp ==
    [][\A w \in Workers :
          (Begins(w) /\ procs'[w].task_run_id \notin DOMAIN task_run)
          => /\ UNCHANGED <<task_run, files, artifact, store, sent>>
             /\ procs'[w].pc = "ended"
             /\ procs'[w].result = "returned"
             /\ procs'[w].raised = NoExc
             /\ ~procs'[w].dispatched
             /\ procs'[w].data = <<>>]_vars

\* a stale id was delivered while a run of another id exists
C23_Witness ==
    \E w \in Workers :
        /\ procs[w].pc = "ended"
        /\ procs[w].task_run_id \notin DOMAIN task_run
        /\ task_run # <<>>


\* C28: a drive of run_task in which the handler raises adds no Artifact
\* row and ends FAILED; rows of the run are added only by a drive whose
\* handler ran to completion, which adds all of them.
C28_FailedDriveNoArtifact ==
    [][\A w \in Workers :
          (procs[w].pc = "running" /\ procs'[w].pc = "ended") =>
             LET id == procs[w].task_run_id
                 key == strip_lower(procs[w].tr.name)
             IN IF procs'[w].raised # NoExc
                THEN /\ task_run'[id].status = "FAILED"
                     /\ artifact' = artifact
                ELSE /\ task_run'[id].status = "SUCCEEDED"
                     /\ artifact'[id] = artifact[id] + artifacts_of(key)]_vars

\* the handler of each name has raised in the only drive of its run: the run
\* is FAILED and has no Artifact row
C28_Witness ==
    \E w \in Workers :
        /\ Executed(w) /\ procs[w].dispatched
        /\ procs[w].raised \in HandlerExcs
        /\ task_run[procs[w].task_run_id].name = "vlm_ocr"
        /\ task_run[procs[w].task_run_id].status = "FAILED"
        /\ delivered[procs[w].task_run_id] = 1
        /\ artifact[procs[w].task_run_id] = 0


\* the extensions of office documents
OfficeExts == {Ext(x) : x \in OFFICE_LABELS}

\* the families for which the input carries a signal: its label, its mime or
\* its extension is in the family's set
Signalled(c) ==
    {fam \in {"pdf", "office", "html", "image"} :
        \/ fam = "pdf" /\ (c.label = "pdf" \/ c.mime = ApplicationPdf \/ c.ext = Ext("pdf"))
        \/ fam = "office" /\ (\/ c.label \in OFFICE_LABELS
                               \/ c.mime \in OFFICE_MIMES
                               \/ c.ext \in OfficeExts)
        \/ fam = "html" /\ (\/ c.label \in HTML_LABELS
                             \/ c.mime = TextHtml
                             \/ c.ext \in HTML_EXTS)
        \/ fam = "image" /\ (\/ c.label \in IMAGE_LABELS
                              \/ (c.mime # NonePy /\ c.mime[1] = "image")
                              \/ c.ext \in IMAGE_EXTS)}

\* C24: an input that carries a signal (label, mime or extension) of one
\* family only is handled by that family's backend; in PDF mode a PDF,
\* Office or HTML input so recognised is not rasterized.
C24_AnySignalRecognised ==
    Loaded =>
      \A fam \in {"pdf", "office", "html", "image"} :
         Signalled(ld.c) = {fam} =>
            LET direct == ld.options.return_mode = "PDF_BYTES" /\ fam # "image"
                first == FirstCall(fam, direct)
            IN /\ IF first = "none" THEN ld.res.calls = <<>>
                  ELSE ld.res.calls # <<>> /\ ld.res.calls[1].fn = first
               /\ direct => ~Called(ld.res, "_open_pdf_as_images")

\* the family of a label
LabelFamily(label) ==
    CASE label = "pdf" -> "pdf"
      [] label \in OFFICE_LABELS -> "office"
      [] label \in HTML_LABELS -> "html"
      [] label \in IMAGE_LABELS -> "image"
      [] OTHER -> "none"

\* C25: when Magika answers with a label of one family, load handles the
\* input with that family's backend whatever its extension is.
C25_LabelBeatsExtension ==
    (Loaded /\ ld.c.src = "magika" /\ LabelFamily(ld.c.label) # "none") =>
       LET fam == LabelFamily(ld.c.label)
           direct == ld.options.return_mode = "PDF_BYTES" /\ fam # "image"
           first == FirstCall(fam, direct)
       IN IF first = "none" THEN ld.res.calls = <<>>
          ELSE ld.res.calls # <<>> /\ ld.res.calls[1].fn = first


\* the mime of a buffer by its magic bytes: %PDF, PNG, JPEG, TIFF, RIFF with
\* WEBP at offset 8, or the generic one
Sniffed(data) ==
    CASE Len(data) >= 1 /\ data[1] = PdfMagic -> ApplicationPdf
      [] Len(data) >= 1 /\ data[1] = PngMagic -> Mime("image", "png")
      [] Len(data) >= 1 /\ data[1] = JpegMagic -> Mime("image", "jpeg")
      [] Len(data) >= 1 /\ data[1] \in TiffMagics -> Mime("image", "tiff")
      [] Len(data) >= 3 /\ data[1] = "RIFF" /\ data[3] = "WEBP" -> Mime("image", "webp")
      [] OTHER -> OctetStream

\* C26: when Magika fails on a byte buffer, _detect_type answers the mime of
\* the buffer's magic bytes (PDF, PNG, JPEG, TIFF, WEBP) with source sniff,
\* and application/octet-stream for every other buffer, the empty one too.
C26_SniffFallback ==
    (/\ ld.pc = "detected"
     /\ ld.doc.kind = "bytes"
     /\ ld.magika = MagikaRaises)
    => ld.det = <<Sniffed(ld.doc.data), NonePy, "sniff">>


\* C27: when load has returned or raised, the doc2img- directory it worked
\* in and the html2pdf- directory of the Chrome fallback are gone, whatever
\* raised: a converter, the rasterizer, the assembler or the routing.
C27_TempReleased ==
    Loaded =>
      /\ ld.left = {}
      /\ \E i \in 1..Len(ld.dirs) : ld.dirs[i] = Made("doc2img-")
      /\ (Called(ld.res, "_html_to_pdf") /\ ld.env.html = "chrome")
            => \E i \in 1..Len(ld.dirs) : ld.dirs[i] = Made("html2pdf-")

\* Chrome failed on an HTML document: load raised, both directories were
\* made and none is left
C27_Witness ==
    /\ Loaded
    /\ ld.env.html = "chrome"
    /\ ld.env.tool = "convert_raises"
    /\ Called(ld.res, "_html_to_pdf")
    /\ ld.res.kind = "raise"
    /\ \E i \in 1..Len(ld.dirs) : ld.dirs[i] = Made("html2pdf-")
    /\ ld.left = {}

====
